---------------------------- MODULE Spec2Model ----------------------------
(***************************************************************************)
(* Model of pkg/pipeline/source/web.go: the WebSource capture controller,   *)
(* and of pkg/pipeline/sink/uploader/uploader.go: the upload of a finished  *)
(* recording.                                                               *)
(*                                                                         *)
(* web.go holds two versions of the file one after the other.  The model   *)
(* follows the later one (lines 434-823: five attempts, the browser handle *)
(* is canceled between attempts); FirstCopyCancel below is the retry-loop  *)
(* body of the earlier one (lines 62-118), which has no cancel step.       *)
(*                                                                         *)
(* Processes:                                                              *)
(*   - the supervisor: NewWebSource, then the caller's Close calls;        *)
(*   - one task per attempt: the goroutine running launchChrome and        *)
(*     sending its result on that attempt's chromeErr channel;             *)
(*   - the listener registered by each launchChrome with ListenTarget.     *)
(***************************************************************************)
EXTENDS Integers, Sequences, FiniteSets, TLC

\* web.go:522  maxRetries := 5
maxRetries == 5

\* web.go:477  chromeTimeout = time.Second * 45, in seconds
chromeTimeout == 45

\* web.go:359  context.WithTimeout(chromeCtx, 60*time.Second), in seconds
navigationTimeout == 60

\* Bounds of the model (not program constants).
\* Sequential Close calls the caller makes after NewWebSource returned a source.
MaxCloseCalls == 2
\* Occurrences of one sentinel delivered to the listeners.
MaxSentinel == 2
\* Arguments of one console event.
MaxArgs == 2
\* Attempt tasks that go on running after their attempt was abandoned by the timer.
MaxLate == 1
\* Attempts of the retry loop followed when the listeners are taken step by step.
MaxRaceAttempt == 2
\* Upload calls made on one uploader.
MaxUploads == 2

Attempts == 1..maxRetries

VARIABLES
    awaitStart,     \* p.AwaitStartSignal
    urlOk,          \* p.WebUrl is set, or p.BaseUrl parses
    pc,             \* position of the supervisor
    attempt,        \* loop variable of NewWebSource
    err,            \* local err of NewWebSource
    ret,            \* what NewWebSource returned
    pulseSink,      \* s.pulseSink
    xvfb,           \* s.xvfb
    closeChrome,    \* s.closeChrome: 0 is nil, k the cancel function of task k
    startRecording, \* s.startRecording: "nil", "open" or "closed"
    endRecording,   \* s.endRecording
    task,           \* position of each attempt's goroutine
    chromeErr,      \* buffer of each attempt's chromeErr channel
    live,           \* tasks whose browser handle (allocator + context) is not canceled
    listener,       \* tasks whose registered listener still gets events
    sinkLoaded,     \* host: the null sink module is loaded
    xvfbRunning,    \* host: the Xvfb process runs
    count,          \* calls made on the resource layer, and those that failed in Close
    outcome,        \* how the select of the latest attempt ended
    attemptErr,     \* the error the latest attempt ended with
    timedOut,       \* some attempt was ended by the timer
    late,           \* abandoned tasks that took a step after being abandoned
    closePc,        \* position inside Close
    closeCalls,     \* Close calls of the caller that completed
    closeOps,       \* destroy operations of the Close in progress or last completed
    seen,           \* sentinels handled and closes made so far
    panicked,       \* a listener closed a closed or nil channel
    uploader,       \* what uploader.New returned
    uploaded,       \* the Upload calls made on it and what they did
    pending         \* per listener: the signal whose select took the default case

vars == <<awaitStart, urlOk, pc, attempt, err, ret, pulseSink, xvfb, closeChrome,
          startRecording, endRecording, task, chromeErr, live, listener,
          sinkLoaded, xvfbRunning, count, outcome, attemptErr, timedOut, late,
          closePc, closeCalls, closeOps, seen, panicked, pending,
          uploader, uploaded>>

config == <<awaitStart, urlOk>>
source == <<pulseSink, xvfb, closeChrome>>
signals == <<startRecording, endRecording, seen, panicked, pending>>
tasks == <<task, chromeErr, listener, late>>
history == <<outcome, attemptErr, timedOut>>
closing == <<closePc, closeCalls, closeOps>>
upload == <<uploader, uploaded>>

(***************************************************************************)
(* Errors                                                                  *)
(***************************************************************************)
Nil == [kind |-> "nil", msg |-> ""]
ErrProcessFailed(cmd) == [kind |-> "ProcessFailed", msg |-> cmd]
ErrPageLoadFailed(msg) == [kind |-> "PageLoadFailed", msg |-> msg]
\* web.go:476
chromeFailedToStart == "chrome failed to start:"

ErrChromeFailedToStart == [kind |-> "ChromeFailedToStart", msg |-> chromeFailedToStart]
\* an error returned as it came from url.Parse or chromedp.Run
RawError(msg) == [kind |-> "error", msg |-> msg]

Empty == [kind |-> "empty", msg |-> ""]


(***************************************************************************)
(* Go channels used as one-shot signals                                    *)
(***************************************************************************)
\* a receive is ready on a closed channel only: nobody ever sends on the
\* signal channels, and a receive on a nil channel blocks for ever
RecvReady(ch) == ch = "closed"

\* close(ch) panics on a closed and on a nil channel
ClosePanics(ch) == ch # "open"

(***************************************************************************)
(* Console arguments: the raw JSON of arg.Value                            *)
(***************************************************************************)
startRecordingLog == "START_RECORDING"
endRecordingLog == "END_RECORDING"

RawArgs == {"\"START_RECORDING\"", "\"END_RECORDING\"", "\"hello\"",
            "START_RECORDING", "[\"START_RECORDING\"]"}

\* json.Unmarshal(arg.Value, &val): a bare word is no JSON
Unmarshal(raw) ==
    CASE raw = "\"START_RECORDING\"" -> [ok |-> TRUE, type |-> "string", val |-> "START_RECORDING"]
      [] raw = "\"END_RECORDING\"" -> [ok |-> TRUE, type |-> "string", val |-> "END_RECORDING"]
      [] raw = "\"hello\"" -> [ok |-> TRUE, type |-> "string", val |-> "hello"]
      [] raw = "[\"START_RECORDING\"]" -> [ok |-> TRUE, type |-> "array", val |-> "START_RECORDING"]
      [] OTHER -> [ok |-> FALSE, type |-> "", val |-> ""]

\* mutant: a slice prints as its element
SprintFlat(v) == v.val

\* fmt.Sprint(val): a string prints as itself, a slice inside brackets
Sprint(v) == IF v.type = "array" THEN "[" \o v.val \o "]" ELSE v.val

ConsoleEvents == UNION {[1..n -> RawArgs] : n \in 0..MaxArgs}

(***************************************************************************)
(* The listener of launchChrome (web.go:734-788)                           *)
(***************************************************************************)
\* the signal state a listener invocation works on
SignalState ==
    [start |-> startRecording, end |-> endRecording, panicked |-> panicked,
     nStart |-> seen.start, nEnd |-> seen.end,
     closedStart |-> seen.closedStart, closedEnd |-> seen.closedEnd]

\* close(s.startRecording)
CloseStart(st) ==
    IF ClosePanics(st.start)
    THEN [st EXCEPT !.panicked = TRUE]
    ELSE [st EXCEPT !.start = "closed", !.closedStart = @ + 1]

\* close(s.endRecording)
CloseEnd(st) ==
    IF ClosePanics(st.end)
    THEN [st EXCEPT !.panicked = TRUE]
    ELSE [st EXCEPT !.end = "closed", !.closedEnd = @ + 1]

\* case startRecordingLog: nil check, then select with default
FlipStart(st) ==
    IF st.start # "nil"
    THEN IF RecvReady(st.start) THEN st ELSE CloseStart(st)
    ELSE st

\* mutant: the end channel is closed without the select that guards it
FlipEndUnguarded(st) == IF st.end # "nil" THEN CloseEnd(st) ELSE st

\* mutant: flipping the end signal makes a fresh start channel
FlipEndResetsStart(st) ==
    IF st.end # "nil"
    THEN IF RecvReady(st.end)
         THEN st
         ELSE [CloseEnd(st) EXCEPT !.start = IF @ = "closed" THEN "open" ELSE @]
    ELSE st

\* case endRecordingLog
FlipEnd(st) ==
    IF st.end # "nil"
    THEN IF RecvReady(st.end) THEN st ELSE CloseEnd(st)
    ELSE st

\* one iteration of  for _, arg := range ev.Args
HandleArg(raw, st) ==
    LET u == Unmarshal(raw) IN
    IF ~u.ok THEN st
    ELSE CASE Sprint(u) = startRecordingLog -> FlipStart([st EXCEPT !.nStart = @ + 1])
           [] Sprint(u) = endRecordingLog -> FlipEnd([st EXCEPT !.nEnd = @ + 1])
           [] OTHER -> st

RECURSIVE HandleArgs(_, _)
HandleArgs(args, st) ==
    IF args = <<>> THEN st
    ELSE HandleArgs(Tail(args), HandleArg(Head(args), st))

\* the browser of task k delivers events: its listener is registered and its
\* context is not canceled
Delivers(k) == k \in listener /\ k \in live

\* case *runtime.EventConsoleAPICalled
ConsoleAPICalled(k, args) ==
    /\ Delivers(k)
    /\ ~panicked
    /\ LET st == HandleArgs(args, SignalState) IN
        /\ st.nStart <= MaxSentinel
        /\ st.nEnd <= MaxSentinel
        /\ startRecording' = st.start
        /\ endRecording' = st.end
        /\ panicked' = st.panicked
        /\ seen' = [start |-> st.nStart, end |-> st.nEnd,
                    closedStart |-> st.closedStart, closedEnd |-> st.closedEnd]
    /\ pending' = pending
    /\ UNCHANGED <<config, upload, pc, attempt, err, ret, source, tasks, live,
                   sinkLoaded, xvfbRunning, count, history, closing>>

\* case *runtime.EventExceptionThrown, *network.EventResponseReceived: logged
OtherEvent(k) ==
    /\ Delivers(k)
    /\ ~panicked
    /\ UNCHANGED vars

(***************************************************************************)
(* The listener step by step: listeners of different browsers run on       *)
(* different goroutines, so the select and the close of one invocation     *)
(* interleave with those of another                                        *)
(***************************************************************************)
Sentinels == {"start", "end"}

SignalChannel(which) == IF which = "start" THEN startRecording ELSE endRecording

\* web.go:754-775 up to the select: the nil check, then the select with default.
\* The events of one browser are handled one after another.
ObserveSentinel(k, which) ==
    /\ Delivers(k)
    /\ ~panicked
    /\ pending[k] = "none"
    /\ pending' = IF SignalChannel(which) # "nil" /\ ~RecvReady(SignalChannel(which))
                  THEN [pending EXCEPT ![k] = which]
                  ELSE pending
    /\ UNCHANGED <<config, upload, pc, attempt, err, ret, source, startRecording, endRecording,
                   seen, panicked, tasks, live, sinkLoaded, xvfbRunning, count, history,
                   closing>>

\* web.go:762, 772: the close of the default case
CloseSignal(k) ==
    /\ pending[k] # "none"
    /\ ~panicked
    /\ LET st == IF pending[k] = "start"
                 THEN CloseStart(SignalState)
                 ELSE CloseEnd(SignalState) IN
        /\ startRecording' = st.start
        /\ endRecording' = st.end
        /\ panicked' = st.panicked
        /\ seen' = [seen EXCEPT !.closedStart = st.closedStart,
                                !.closedEnd = st.closedEnd]
    /\ pending' = [pending EXCEPT ![k] = "none"]
    /\ UNCHANGED <<config, upload, pc, attempt, err, ret, source, tasks, live,
                   sinkLoaded, xvfbRunning, count, history, closing>>

(***************************************************************************)
(* uploader.go: New and Upload                                             *)
(***************************************************************************)
\* the configurations New tells apart (uploader.go:48-61); "none" is any other
UploadConfigs == {"EgressS3Upload", "S3Upload", "GCPUpload", "AzureBlobUpload",
                  "AliOSSUpload", "none"}

\* the backend New builds for a configuration
Backend(conf) ==
    CASE conf \in {"EgressS3Upload", "S3Upload"} -> "S3"
      [] conf = "GCPUpload" -> "GCP"
      [] conf = "AzureBlobUpload" -> "Azure"
      [] conf = "AliOSSUpload" -> "AliOSS"
      [] OTHER -> "none"

NotBuilt == [kind |-> "none", backend |-> "none", err |-> FALSE]

\* via: how the last Upload delivered: "" (not at all), "localPath" (the local
\* file as it is), "outDir" (a copy under /out/recordings) or the backend's name
NothingUploaded ==
    [calls |-> 0, backendCalls |-> 0, copies |-> 0, localFile |-> TRUE,
     via |-> "", location |-> "", err |-> FALSE]

outDir == "/out/recordings"

localFilepath == "/tmp/rec.mp4"

StoragePaths == {"a.mp4", "room/b.mp4"}

\* path.Join(outDir, storageFilepath) for a clean relative path
Join(dir, p) == dir \o "/" \o p

web == <<config, pc, attempt, err, ret, source, signals, tasks, live, sinkLoaded,
         xvfbRunning, count, history, closing>>

\* uploader.go:44-73
New(conf, fails) ==
    /\ uploader = NotBuilt
    /\ uploader' =
          IF Backend(conf) = "none"
          THEN [kind |-> "local", backend |-> "none", err |-> FALSE]
          ELSE IF fails
               THEN [kind |-> "nil", backend |-> Backend(conf), err |-> TRUE]
               ELSE [kind |-> "remote", backend |-> Backend(conf), err |-> FALSE]
    /\ UNCHANGED <<uploaded, web>>

FsFailures == {"none", "mkdir", "copy", "stat", "remove"}

\* uploader.go:82-115  remoteUploader.Upload: the copy under /out/recordings; the
\* embedded backend's upload is not called
RemoteUpload(storageFilepath, deleteAfterUpload, fails) ==
    /\ uploader.kind = "remote"
    /\ uploaded.calls < MaxUploads
    /\ uploaded' =
          IF fails = "mkdir"
          THEN [uploaded EXCEPT !.calls = @ + 1, !.via = "", !.location = "",
                                !.err = TRUE]
          ELSE IF fails = "copy" \/ ~uploaded.localFile
          THEN [uploaded EXCEPT !.calls = @ + 1, !.via = "", !.location = "",
                                !.err = TRUE]
          ELSE IF fails = "stat"
          THEN [uploaded EXCEPT !.calls = @ + 1, !.copies = @ + 1, !.via = "",
                                !.location = "", !.err = TRUE]
          ELSE [uploaded EXCEPT !.calls = @ + 1, !.copies = @ + 1, !.via = "outDir",
                                !.location = Join(outDir, storageFilepath),
                                !.err = FALSE,
                                !.localFile = ~(deleteAfterUpload /\ fails # "remove")]
    /\ UNCHANGED <<uploader, web>>

\* uploader.go:119-126  localUploader.Upload
LocalUpload(fails) ==
    /\ uploader.kind = "local"
    /\ uploaded.calls < MaxUploads
    /\ uploaded' =
          IF fails = "stat" \/ ~uploaded.localFile
          THEN [uploaded EXCEPT !.calls = @ + 1, !.via = "", !.location = "",
                                !.err = TRUE]
          ELSE [uploaded EXCEPT !.calls = @ + 1, !.via = "localPath",
                                !.location = localFilepath, !.err = FALSE]
    /\ UNCHANGED <<uploader, web>>

(***************************************************************************)
(* Initial state: NewWebSource was entered and built s (web.go:495-507)    *)
(***************************************************************************)
\* mutant: the start channel is made whatever the configuration says
NewSignalsAlways(await) == [start |-> "open", end |-> "open"]

\* web.go:501-507  the end channel always, the start channel on request
NewSignals(await) == [start |-> IF await THEN "open" ELSE "nil", end |-> "open"]

Init ==
    /\ awaitStart \in BOOLEAN
    /\ urlOk \in BOOLEAN
    /\ pc = "pulse"
    /\ attempt = 1
    /\ err = Nil
    /\ ret = [returned |-> FALSE, ok |-> FALSE, err |-> Nil]
    /\ pulseSink = ""
    /\ xvfb = "nil"
    /\ closeChrome = 0
    /\ startRecording = NewSignals(awaitStart).start
    /\ endRecording = NewSignals(awaitStart).end
    /\ task = [k \in Attempts |-> "idle"]
    /\ chromeErr = [k \in Attempts |-> Empty]
    /\ live = {}
    /\ listener = {}
    /\ sinkLoaded = FALSE
    /\ xvfbRunning = FALSE
    /\ count = [load |-> 0, unload |-> 0, start |-> 0, kill |-> 0, sleep |-> 0,
                recancel |-> 0, failed |-> 0]
    /\ outcome = "none"
    /\ timedOut = FALSE
    /\ attemptErr = Nil
    /\ late = {}
    /\ closePc = "idle"
    /\ closeCalls = 0
    /\ closeOps = <<>>
    /\ seen = [start |-> 0, end |-> 0, closedStart |-> 0, closedEnd |-> 0]
    /\ panicked = FALSE
    /\ pending = [k \in Attempts |-> "none"]
    /\ uploader = NotBuilt
    /\ uploaded = NothingUploaded

\* web.go:559-565  the accessors return the channels as they are
StartRecording == startRecording

EndRecording == endRecording

(***************************************************************************)
(* Close (web.go:575-595)                                                  *)
(***************************************************************************)
\* s.closeChrome(): chromeCancel() and allocCancel() of the task that stored it;
\* a canceled context delivers no more events.  count.recancel counts the calls
\* made on a handle that was canceled before.
CancelHandle(k) ==
    /\ live' = live \ {k}
    /\ listener' = listener \ {k}
    /\ count' = [count EXCEPT !.recancel = @ + (IF k \in live THEN 0 ELSE 1)]

\* Close is entered by NewWebSource on a failure, and by the caller on a source
\* NewWebSource returned
CloseEntered ==
    /\ closePc = "idle"
    /\ \/ pc = "close"
       \/ pc = "returned" /\ ret.ok /\ closeCalls < MaxCloseCalls

\* web.go:584-585: Kill and Wait report an error when the process has exited
KillFails == xvfb # "nil" /\ ~xvfbRunning

\* web.go:591: pactl unload-module fails when the module is not loaded
UnloadFails == pulseSink # "" /\ ~sinkLoaded

\* mutant: Close returns when killing the display fails
CloseStopsOnKillError(ops) ==
    /\ xvfb' = "nil"
    /\ xvfbRunning' = IF xvfb # "nil" THEN FALSE ELSE xvfbRunning
    /\ sinkLoaded' = IF pulseSink # "" /\ ~KillFails THEN FALSE ELSE sinkLoaded
    /\ pulseSink' = pulseSink
    /\ count' = [count EXCEPT !.kill = @ + (IF xvfb # "nil" THEN 1 ELSE 0),
                              !.unload = @ + (IF pulseSink # "" /\ ~KillFails THEN 1 ELSE 0),
                              !.failed = @ + (IF KillFails THEN 1 ELSE 0)
                                           + (IF UnloadFails /\ ~KillFails THEN 1 ELSE 0)]
    /\ closeOps' = ops \o (IF xvfb # "nil" THEN <<"kill">> ELSE <<>>)
                       \o (IF pulseSink # "" /\ ~KillFails THEN <<"unload">> ELSE <<>>)
    /\ closePc' = "idle"
    /\ IF pc = "close"
       THEN /\ pc' = "returned"
            /\ ret' = [returned |-> TRUE, ok |-> FALSE, err |-> err]
            /\ closeCalls' = closeCalls
       ELSE /\ closeCalls' = closeCalls + 1
            /\ UNCHANGED <<pc, ret>>

\* mutant: the sink is unloaded before the display is killed
CloseSinkThenDisplay(ops) ==
    /\ xvfb' = "nil"
    /\ xvfbRunning' = IF xvfb # "nil" THEN FALSE ELSE xvfbRunning
    /\ sinkLoaded' = IF pulseSink # "" THEN FALSE ELSE sinkLoaded
    /\ pulseSink' = pulseSink
    /\ count' = [count EXCEPT !.kill = @ + (IF xvfb # "nil" THEN 1 ELSE 0),
                              !.unload = @ + (IF pulseSink # "" THEN 1 ELSE 0),
                              !.failed = @ + (IF KillFails THEN 1 ELSE 0)
                                           + (IF UnloadFails THEN 1 ELSE 0)]
    /\ closeOps' = ops \o (IF pulseSink # "" THEN <<"unload">> ELSE <<>>)
                       \o (IF xvfb # "nil" THEN <<"kill">> ELSE <<>>)
    /\ closePc' = "idle"
    /\ IF pc = "close"
       THEN /\ pc' = "returned"
            /\ ret' = [returned |-> TRUE, ok |-> FALSE, err |-> err]
            /\ closeCalls' = closeCalls
       ELSE /\ closeCalls' = closeCalls + 1
            /\ UNCHANGED <<pc, ret>>

\* web.go:582-594 and the return of Close: the display, then the sink
CloseDisplayAndSink(ops) ==
    /\ xvfb' = "nil"
    /\ xvfbRunning' = IF xvfb # "nil" THEN FALSE ELSE xvfbRunning
    /\ sinkLoaded' = IF pulseSink # "" THEN FALSE ELSE sinkLoaded
    /\ pulseSink' = pulseSink
    /\ count' = [count EXCEPT !.kill = @ + (IF xvfb # "nil" THEN 1 ELSE 0),
                              !.unload = @ + (IF pulseSink # "" THEN 1 ELSE 0),
                              !.failed = @ + (IF KillFails THEN 1 ELSE 0)
                                           + (IF UnloadFails THEN 1 ELSE 0)]
    /\ closeOps' = ops \o (IF xvfb # "nil" THEN <<"kill">> ELSE <<>>)
                       \o (IF pulseSink # "" THEN <<"unload">> ELSE <<>>)
    /\ closePc' = "idle"
    /\ IF pc = "close"
       THEN /\ pc' = "returned"
            /\ ret' = [returned |-> TRUE, ok |-> FALSE, err |-> err]
            /\ closeCalls' = closeCalls
       ELSE /\ closeCalls' = closeCalls + 1
            /\ UNCHANGED <<pc, ret>>

\* web.go:576-578: the nil check and the call of s.closeChrome
CloseChrome ==
    /\ CloseEntered
    /\ IF closeChrome # 0
       THEN /\ CancelHandle(closeChrome)
            /\ closePc' = "nil"
            /\ closeOps' = <<"cancel">>
            /\ UNCHANGED <<pc, ret, source, sinkLoaded, xvfbRunning, closeCalls>>
       ELSE /\ CloseDisplayAndSink(<<>>)
            /\ UNCHANGED <<closeChrome, live, listener>>
    /\ UNCHANGED <<config, upload, attempt, err, signals, task, chromeErr, late, history>>

\* web.go:579  s.closeChrome = nil, then the rest of Close
CloseRest ==
    /\ closePc = "nil"
    /\ closeChrome' = 0
    /\ CloseDisplayAndSink(closeOps)
    /\ UNCHANGED <<config, upload, attempt, err, signals, tasks, live, history>>

(***************************************************************************)
(* NewWebSource (web.go:495-557)                                           *)
(***************************************************************************)
\* mutant: a failed sink creation is logged and construction goes on
CreatePulseSinkGoesOn ==
    /\ pc = "pulse"
    /\ \/ /\ pulseSink' = "module-index"
          /\ sinkLoaded' = TRUE
          /\ count' = [count EXCEPT !.load = @ + 1]
          /\ err' = err
       \/ /\ err' = ErrProcessFailed("pulse")
          /\ UNCHANGED <<pulseSink, sinkLoaded, count>>
    /\ pc' = "xvfb"
    /\ UNCHANGED <<config, upload, attempt, ret, xvfb, closeChrome, signals, tasks, live,
                   xvfbRunning, history, closing>>

\* web.go:509-513 with createPulseSink (607-627)
CreatePulseSink ==
    /\ pc = "pulse"
    /\ \/ /\ pulseSink' = "module-index"
          /\ sinkLoaded' = TRUE
          /\ count' = [count EXCEPT !.load = @ + 1]
          /\ pc' = "xvfb"
          /\ err' = err
       \/ /\ err' = ErrProcessFailed("pulse")
          /\ pc' = "close"
          /\ UNCHANGED <<pulseSink, sinkLoaded, count>>
    /\ UNCHANGED <<config, upload, attempt, ret, xvfb, closeChrome, signals, tasks, live,
                   xvfbRunning, history, closing>>

\* mutant: a failed display launch returns the error without calling Close
LaunchXvfbNoClose ==
    /\ pc = "xvfb"
    /\ \/ /\ xvfb' = "cmd"
          /\ xvfbRunning' = TRUE
          /\ count' = [count EXCEPT !.start = @ + 1]
          /\ pc' = "loop"
          /\ UNCHANGED <<err, ret>>
       \/ /\ err' = ErrProcessFailed("xvfb")
          /\ pc' = "returned"
          /\ ret' = [returned |-> TRUE, ok |-> FALSE, err |-> ErrProcessFailed("xvfb")]
          /\ UNCHANGED <<xvfb, xvfbRunning, count>>
    /\ UNCHANGED <<config, upload, attempt, pulseSink, closeChrome, signals, tasks,
                   live, sinkLoaded, history, closing>>

\* web.go:515-519 with launchXvfb (630-644)
LaunchXvfb ==
    /\ pc = "xvfb"
    /\ \/ /\ xvfb' = "cmd"
          /\ xvfbRunning' = TRUE
          /\ count' = [count EXCEPT !.start = @ + 1]
          /\ pc' = "loop"
          /\ err' = err
       \/ /\ err' = ErrProcessFailed("xvfb")
          /\ pc' = "close"
          /\ UNCHANGED <<xvfb, xvfbRunning, count>>
    /\ UNCHANGED <<config, upload, attempt, ret, pulseSink, closeChrome, signals, tasks,
                   live, sinkLoaded, history, closing>>

\* web.go:525-529: a fresh channel of capacity one, and the goroutine
StartAttempt ==
    /\ pc = "loop"
    /\ attempt <= maxRetries
    /\ chromeErr' = [chromeErr EXCEPT ![attempt] = Empty]
    /\ task' = [task EXCEPT ![attempt] = "started"]
    /\ pc' = "select"
    /\ UNCHANGED <<config, upload, attempt, err, ret, source, signals, listener, late, live,
                   sinkLoaded, xvfbRunning, count, history, closing>>

\* mutant: a successful attempt takes the inter-attempt delay before it returns
SelectChromeErrDelays ==
    /\ pc = "select"
    /\ chromeErr[attempt] # Empty
    /\ err' = chromeErr[attempt]
    /\ chromeErr' = [chromeErr EXCEPT ![attempt] = Empty]
    /\ attemptErr' = chromeErr[attempt]
    /\ IF chromeErr[attempt] = Nil
       THEN /\ outcome' = "ok"
            /\ pc' = "returned"
            /\ ret' = [returned |-> TRUE, ok |-> TRUE, err |-> Nil]
            /\ count' = [count EXCEPT !.sleep = @ + 1]
       ELSE /\ outcome' = "err"
            /\ pc' = "cancel"
            /\ ret' = ret
            /\ count' = count
    /\ UNCHANGED <<config, upload, attempt, source, signals, task, listener, late, live,
                   sinkLoaded, xvfbRunning, timedOut, closing>>

\* web.go:531, 536-539: the result of this attempt's task arrived
SelectChromeErr ==
    /\ pc = "select"
    /\ chromeErr[attempt] # Empty
    /\ err' = chromeErr[attempt]
    /\ chromeErr' = [chromeErr EXCEPT ![attempt] = Empty]
    /\ attemptErr' = chromeErr[attempt]
    /\ IF chromeErr[attempt] = Nil
       THEN /\ outcome' = "ok"
            /\ pc' = "returned"
            /\ ret' = [returned |-> TRUE, ok |-> TRUE, err |-> Nil]
       ELSE /\ outcome' = "err"
            /\ pc' = "cancel"
            /\ ret' = ret
    /\ UNCHANGED <<config, upload, attempt, source, signals, task, listener, late, live,
                   sinkLoaded, xvfbRunning, count, timedOut, closing>>

\* mutant: the select has no timer case, the supervisor waits for the result
SelectWithoutTimer(isLate) == FALSE /\ UNCHANGED vars

\* web.go:533-534: time.After(chromeTimeout) fired.  The abandoned goroutine either
\* is late (it goes on running, or its result already sits in the channel) or
\* never runs again (launchChrome never returns).
SelectTimeout(isLate) ==
    /\ pc = "select"
    /\ err' = ErrPageLoadFailed("timed out")
    /\ attemptErr' = ErrPageLoadFailed("timed out")
    /\ outcome' = "timeout"
    /\ timedOut' = TRUE
    /\ pc' = "cancel"
    /\ IF isLate
       THEN /\ Cardinality(late) < MaxLate
            /\ late' = late \cup {attempt}
            /\ task' = task
       ELSE /\ task[attempt] # "done"
            /\ late' = late
            /\ task' = [task EXCEPT ![attempt] = "hung"]
    /\ UNCHANGED <<config, upload, attempt, ret, source, signals, chromeErr, listener, live,
                   sinkLoaded, xvfbRunning, count, closing>>

\* mutant: the loop gives up one attempt early
AfterAttemptEarly == IF attempt < maxRetries - 1 THEN "delay" ELSE "close"

\* web.go:547-552: after the log, sleep when attempts remain
AfterAttempt == IF attempt < maxRetries THEN "delay" ELSE "close"

\* the retry loop of the first copy (web.go:103-113) has no cancel step
FirstCopyCancel ==
    /\ pc = "cancel"
    /\ pc' = AfterAttempt
    /\ UNCHANGED <<config, upload, attempt, err, ret, source, signals, tasks, live,
                   sinkLoaded, xvfbRunning, count, history, closing>>

\* web.go:542-543: the nil check and the call of s.closeChrome
CancelChrome ==
    /\ pc = "cancel"
    /\ IF closeChrome # 0
       THEN /\ CancelHandle(closeChrome)
            /\ pc' = "cancelNil"
       ELSE /\ pc' = AfterAttempt
            /\ UNCHANGED <<live, listener, count>>
    /\ UNCHANGED <<config, upload, attempt, err, ret, source, signals, task, chromeErr, late,
                   sinkLoaded, xvfbRunning, history, closing>>

\* mutant: the cancel step of a failed attempt also kills the display
CancelNilKillsDisplay ==
    /\ pc = "cancelNil"
    /\ closeChrome' = 0
    /\ pc' = AfterAttempt
    /\ xvfb' = "nil"
    /\ xvfbRunning' = FALSE
    /\ count' = [count EXCEPT !.kill = @ + 1]
    /\ UNCHANGED <<config, upload, attempt, err, ret, pulseSink, signals, tasks, live,
                   sinkLoaded, history, closing>>

\* web.go:544  s.closeChrome = nil
CancelNil ==
    /\ pc = "cancelNil"
    /\ closeChrome' = 0
    /\ pc' = AfterAttempt
    /\ UNCHANGED <<config, upload, attempt, err, ret, pulseSink, xvfb, signals, tasks, live,
                   sinkLoaded, xvfbRunning, count, history, closing>>

\* web.go:550  time.Sleep(retryDelay), then attempt++
RetryDelay ==
    /\ pc = "delay"
    /\ count' = [count EXCEPT !.sleep = @ + 1]
    /\ attempt' = attempt + 1
    /\ pc' = "loop"
    /\ UNCHANGED <<config, upload, err, ret, source, signals, tasks, live,
                   sinkLoaded, xvfbRunning, history, closing>>

(***************************************************************************)
(* The goroutine of an attempt: chromeErr <- s.launchChrome(...)           *)
(* (web.go:527-529, 647-812)                                               *)
(***************************************************************************)
\* the supervisor still waits for task k
Awaited(k) == pc = "select" /\ attempt = k

\* task k runs: its attempt is in progress, or it was abandoned and goes on
Runs(k) == Awaited(k) \/ k \in late

\* mutant: one result channel made before the loop and shared by all attempts
ReturnShared(k, e) ==
    /\ chromeErr' = [chromeErr EXCEPT ![attempt] = e]
    /\ task' = [task EXCEPT ![k] = "done"]

\* mutant: make(chan error), a channel without buffer: a send needs a receiver
CanSendUnbuffered(k) == Awaited(k)

\* web.go:526  make(chan error, 1): a send completes when the buffer has room
CanSend(k) == chromeErr[k] = Empty

\* launchChrome returns e and the goroutine sends it on the channel of its attempt
Return(k, e) ==
    /\ CanSend(k)
    /\ chromeErr' = [chromeErr EXCEPT ![k] = e]
    /\ task' = [task EXCEPT ![k] = "done"]

\* web.go:651-657: the url cannot be built
UrlFails(k) ==
    /\ task[k] = "started"
    /\ Runs(k)
    /\ ~urlOk
    /\ Return(k, RawError("url.Parse"))
    /\ UNCHANGED <<config, upload, pc, attempt, err, ret, source, signals, listener, late, live,
                   sinkLoaded, xvfbRunning, count, history, closing>>

\* web.go:721-726: the allocator and the context are made, s.closeChrome is stored
StoreCloseChrome(k) ==
    /\ task[k] = "started"
    /\ Runs(k)
    /\ urlOk
    /\ live' = live \cup {k}
    /\ closeChrome' = k
    /\ task' = [task EXCEPT ![k] = "stored"]
    /\ UNCHANGED <<config, upload, pc, attempt, err, ret, pulseSink, xvfb, signals, chromeErr,
                   listener, late, sinkLoaded, xvfbRunning, count, history, closing>>

\* chromedp.Run on the context of task k: on a canceled context it returns the
\* context's error; on a live one it succeeds ("") or chrome does not come up
RunResults(k) ==
    IF k \in live THEN {"", chromeFailedToStart} ELSE {"context canceled"}

\* web.go:729-732, 734: network.Enable runs; on success the listener is registered
EnableNetwork(k) ==
    /\ task[k] = "stored"
    /\ Runs(k)
    /\ \E runErr \in RunResults(k) :
          IF runErr = ""
          THEN /\ listener' = listener \cup {k}
               /\ task' = [task EXCEPT ![k] = "listening"]
               /\ chromeErr' = chromeErr
          ELSE /\ Return(k, RawError(runErr))
               /\ listener' = listener
    /\ UNCHANGED <<config, upload, pc, attempt, err, ret, source, signals, late, live,
                   sinkLoaded, xvfbRunning, count, history, closing>>

\* web.go:801-811: the classification of the navigation's result
Classify(runErr, errString) ==
    IF runErr # ""
    THEN IF runErr = chromeFailedToStart
         THEN ErrChromeFailedToStart
         ELSE ErrPageLoadFailed(runErr)
    ELSE IF errString # "" THEN ErrPageLoadFailed(errString) ELSE Nil

\* text of div.error once the page has loaded
ErrorTexts == {"", "page error"}

\* web.go:790-811: navigate, read div.error, classify
Navigate(k) ==
    /\ task[k] = "listening"
    /\ Runs(k)
    /\ \E runErr \in RunResults(k), errString \in ErrorTexts :
          /\ runErr # "" => errString = ""
          /\ Return(k, Classify(runErr, errString))
    /\ UNCHANGED <<config, upload, pc, attempt, err, ret, source, signals, listener, late, live,
                   sinkLoaded, xvfbRunning, count, history, closing>>

\* web.go:358-384 against 533: the navigation of the awaited attempt hangs.  Its
\* context ends it with "navigation timed out" after navigationTimeout, the select
\* ends the attempt after chromeTimeout; the shorter of the two comes first.  (The
\* later copy navigates on chromeCtx, which has no deadline.)
NavigationHangs ==
    /\ pc = "select"
    /\ task[attempt] = "listening"
    /\ IF navigationTimeout < chromeTimeout
       THEN /\ Return(attempt, ErrPageLoadFailed("navigation timed out"))
            /\ UNCHANGED <<config, upload, pc, attempt, err, ret, source, signals, listener,
                           late, live, sinkLoaded, xvfbRunning, count, history, closing>>
       ELSE SelectTimeout(FALSE)

\* the host: the Xvfb process exits on its own
XvfbExits ==
    /\ xvfbRunning
    /\ xvfbRunning' = FALSE
    /\ UNCHANGED <<config, upload, pc, attempt, err, ret, source, signals, tasks, live,
                   sinkLoaded, count, history, closing>>

\* the host: the null sink module is unloaded from outside
SinkUnloads ==
    /\ sinkLoaded
    /\ sinkLoaded' = FALSE
    /\ UNCHANGED <<config, upload, pc, attempt, err, ret, source, signals, tasks, live,
                   xvfbRunning, count, history, closing>>

\* NewWebSource and the Close calls; withLate: abandoned tasks may go on running
Supervisor(withLate) ==
    \/ CreatePulseSink
    \/ LaunchXvfb
    \/ StartAttempt
    \/ SelectChromeErr
    \/ \E isLate \in {FALSE, withLate} : SelectTimeout(isLate)
    \/ CancelChrome
    \/ CancelNil
    \/ RetryDelay
    \/ CloseChrome
    \/ CloseRest

Task(k) ==
    \/ UrlFails(k)
    \/ StoreCloseChrome(k)
    \/ EnableNetwork(k)
    \/ Navigate(k)

Listener(k) ==
    \/ \E args \in ConsoleEvents : ConsoleAPICalled(k, args)
    \/ OtherEvent(k)

\* The life cycle: the supervisor and the attempt tasks.  The listener only writes
\* the two signal channels, which NewWebSource and Close never read.
Next ==
    \/ Supervisor(TRUE)
    \/ \E k \in Attempts : Task(k)

Spec == Init /\ [][Next]_vars

\* The life cycle with the events of the browsers; here a task abandoned by the
\* timer never runs again, and the events are handled one after another.
NextListen ==
    \/ Supervisor(FALSE)
    \/ \E k \in Attempts : Task(k)
    \/ \E k \in Attempts : Listener(k)

SpecListen == Init /\ [][NextListen]_vars

\* The life cycle with abandoned tasks that go on running and the listeners of
\* all live browsers, each listener invocation taken step by step.  A panic of
\* a listener goroutine ends the process.  The retry loop is followed up to
\* attempt MaxRaceAttempt.
NextConcurrent ==
    \/ ~panicked /\ attempt <= MaxRaceAttempt /\ Supervisor(TRUE)
    \/ ~panicked /\ \E k \in Attempts : Task(k)
    \/ \E k \in Attempts, which \in Sentinels : ObserveSentinel(k, which)
    \/ \E k \in Attempts : CloseSignal(k)

SpecConcurrent == Init /\ [][NextConcurrent]_vars

\* The life cycle with the two timeouts of an attempt: before the navigation only
\* the timer of the select runs; once the navigation is in progress its deadline
\* runs too.  A task abandoned by the timer never runs again.
NextTimers ==
    \/ CreatePulseSink
    \/ LaunchXvfb
    \/ StartAttempt
    \/ SelectChromeErr
    \/ task[attempt] # "listening" /\ SelectTimeout(FALSE)
    \/ NavigationHangs
    \/ CancelChrome
    \/ CancelNil
    \/ RetryDelay
    \/ CloseChrome
    \/ CloseRest
    \/ \E k \in Attempts : Task(k)

SpecTimers == Init /\ [][NextTimers]_vars

\* The life cycle on a host where the display process and the sink module can
\* go away at any moment.  A task abandoned by the timer never runs again.
NextFaults ==
    \/ Supervisor(FALSE)
    \/ \E k \in Attempts : Task(k)
    \/ XvfbExits
    \/ SinkUnloads

SpecFaults == Init /\ [][NextFaults]_vars

\* The uploader of a finished recording: one New, then Upload calls.
NextUpload ==
    \/ \E conf \in UploadConfigs, fails \in BOOLEAN : New(conf, fails)
    \/ \E storageFilepath \in StoragePaths, deleteAfterUpload \in BOOLEAN,
          fails \in FsFailures : RemoteUpload(storageFilepath, deleteAfterUpload, fails)
    \/ \E fails \in {"none", "stat"} : LocalUpload(fails)

SpecUpload == Init /\ [][NextUpload]_vars

\* The timer of the select fires, time.Sleep returns, and the cancel functions and
\* the commands of Close return; the external commands of createPulseSink and
\* launchXvfb and the attempt tasks may never complete.
SupervisorProgress ==
    \/ StartAttempt
    \/ SelectChromeErr
    \/ \E isLate \in BOOLEAN : SelectTimeout(isLate)
    \/ CancelChrome
    \/ CancelNil
    \/ RetryDelay
    \/ pc = "close" /\ CloseChrome
    \/ pc = "close" /\ CloseRest

FairSpec == Spec /\ WF_vars(SupervisorProgress)

\* A goroutine abandoned by the timer whose launchChrome goes on is scheduled: it
\* takes its next step whenever it can.  Nothing is assumed of the supervisor.
FairTasks == Spec /\ \A k \in Attempts : WF_vars(k \in late /\ Task(k))

(***************************************************************************)
(* Properties                                                              *)
(***************************************************************************)
ReturnedOk == ret.returned /\ ret.ok

ReturnedErr == ret.returned /\ ~ret.ok

\* invocations of launchChrome so far
Launches == Cardinality({k \in Attempts : task[k] # "idle"})

\* NewWebSource returned after its last attempt failed
Exhausted == ReturnedErr /\ outcome \in {"err", "timeout"}

Range(f) == {f[i] : i \in DOMAIN f}

\* C1: NewWebSource returns either (source, nil) with the sink, the display and
\* a browser handle live, or (nil, error) with the sink unloaded, the display
\* killed and no browser handle of any attempt left uncanceled, the attempts
\* abandoned on timeout included.
C1_AllOrNothing ==
    /\ (ReturnedOk /\ closeCalls = 0 /\ closePc = "idle")
          => (sinkLoaded /\ xvfbRunning /\ closeChrome \in live)
    /\ ReturnedErr => (~sinkLoaded /\ ~xvfbRunning /\ live = {})

\* C2: whatever the number of sequential Close calls, the browser handle, the
\* display and the sink are each destroyed once in total; a second Close issues
\* no second unload of the sink.
C2_CloseIdempotent ==
    (ReturnedOk /\ closeCalls >= 1 /\ closePc = "idle")
        => (count.unload = 1 /\ count.kill = 1 /\ count.recancel = 0)

\* C3: each signal goes from not-occurred to occurred at most once: a sentinel
\* seen again closes no channel, raises no panic and leaves the signal occurred.
C3_SignalsFlipOnce ==
    /\ ~panicked
    /\ seen.closedStart <= 1
    /\ seen.closedEnd <= 1
    /\ (seen.start >= 1 /\ startRecording # "nil") => RecvReady(startRecording)
    /\ seen.end >= 1 => RecvReady(endRecording)

C3_Witness ==
    /\ awaitStart
    /\ seen.start >= 2
    /\ seen.end >= 2
    /\ seen.closedStart = 1
    /\ seen.closedEnd = 1

C5_ExhaustedRetriesError ==
    Exhausted =>
        /\ Launches = maxRetries
        /\ ret.err.kind = "ExhaustedRetries"
        /\ count.kill = 1
        /\ count.unload = 1

\* C5 amended: after every attempt failed NewWebSource has launched chrome
\* maxRetries times, returns the error of the last attempt as it is, and the
\* display and the sink were destroyed once each.
C5_ExhaustedLastError ==
    Exhausted =>
        /\ Launches = maxRetries
        /\ ret.err = attemptErr
        /\ ret.err.kind \in {"PageLoadFailed", "ChromeFailedToStart", "error"}
        /\ count.kill = 1
        /\ count.unload = 1
        /\ ~xvfbRunning
        /\ ~sinkLoaded

C5_Witness ==
    /\ Exhausted
    /\ ret.err = ErrChromeFailedToStart
    /\ timedOut

\* C6: an attempt whose launchChrome does not complete is ended by the timer with
\* PageLoadFailed("timed out"), and NewWebSource, once it waits in the select,
\* returns after at most maxRetries attempts whatever the tasks do.
C6_TimeoutProgress ==
    /\ [](outcome = "timeout" => attemptErr = ErrPageLoadFailed("timed out"))
    /\ []((outcome = "timeout" /\ ~ret.returned) => err = ErrPageLoadFailed("timed out"))
    /\ [](attempt <= maxRetries)
    /\ (pc = "select") ~> ret.returned

C6_Witness ==
    /\ ReturnedErr
    /\ ret.err = ErrPageLoadFailed("timed out")
    /\ \A k \in Attempts : task[k] = "hung"

\* C7: when the display launch fails after the sink was created, NewWebSource
\* returns (nil, ProcessFailed), the sink is unloaded once, no display is killed
\* and launchChrome is never invoked.
C7_XvfbFailure ==
    (ret.returned /\ count.load = 1 /\ count.start = 0) =>
        /\ ~ret.ok
        /\ ret.err = ErrProcessFailed("xvfb")
        /\ count.unload = 1
        /\ count.kill = 0
        /\ closeOps = <<"unload">>
        /\ Launches = 0

C7_Witness ==
    /\ ReturnedErr
    /\ count.load = 1
    /\ count.start = 0
    /\ ~sinkLoaded

\* C8: when the sink creation fails, NewWebSource returns (nil, ProcessFailed)
\* at once: no display launch, no launchChrome, and its Close destroys nothing.
C8_PulseFailure ==
    /\ (pc = "close" /\ count.load = 0) => err = ErrProcessFailed("pulse")
    /\ (ret.returned /\ count.load = 0) =>
          /\ ~ret.ok
          /\ ret.err = ErrProcessFailed("pulse")
          /\ count.start = 0
          /\ Launches = 0
          /\ closeOps = <<>>
          /\ count.kill = 0
          /\ count.unload = 0
          /\ live = {}

C8_Witness ==
    /\ ReturnedErr
    /\ count.load = 0
    /\ closePc = "idle"

\* a Close call takes its first step / the step that ends it
CloseStarts ==
    /\ closePc = "idle"
    /\ closePc' = "nil" \/ closeCalls' # closeCalls \/ (pc = "close" /\ pc' = "returned")

CloseEnds ==
    /\ closePc' = "idle"
    /\ closePc = "nil" \/ CloseStarts

TeardownOrders ==
    {<<>>, <<"cancel">>, <<"kill">>, <<"unload">>, <<"cancel", "kill">>,
     <<"cancel", "unload">>, <<"kill", "unload">>, <<"cancel", "kill", "unload">>}

C10_StartAlreadyOccurred ==
    (ReturnedOk /\ ~awaitStart) => RecvReady(StartRecording)

\* C10 amended: without AwaitStartSignal StartRecording returns the nil channel;
\* it never occurs, a start sentinel included, and a receive on it is never ready.
C10_NoStartSignal ==
    ~awaitStart =>
        /\ StartRecording = "nil"
        /\ ~RecvReady(StartRecording)
        /\ seen.closedStart = 0
        /\ ~panicked

C10_Witness ==
    /\ ReturnedOk
    /\ ~awaitStart
    /\ seen.start >= 1


\* C11: the signals are monotonic and independent: a signal that occurred stays
\* occurred in every later state, a step that observes end sentinels only leaves
\* the start signal as it is, and a step that observes start sentinels only
\* leaves the end signal as it is.
C11_MonotonicIndependent ==
    /\ [][RecvReady(startRecording) => RecvReady(startRecording')]_vars
    /\ [][RecvReady(endRecording) => RecvReady(endRecording')]_vars
    /\ [][(seen'.end > seen.end /\ seen'.start = seen.start)
            => startRecording' = startRecording]_vars
    /\ [][(seen'.start > seen.start /\ seen'.end = seen.end)
            => endRecording' = endRecording]_vars
    /\ [][startRecording' # startRecording => seen'.start > seen.start]_vars
    /\ [][endRecording' # endRecording => seen'.end > seen.end]_vars

C11_Witness ==
    /\ awaitStart
    /\ RecvReady(startRecording)
    /\ RecvReady(endRecording)
    /\ seen.start = 1
    /\ seen.end = MaxSentinel

\* C12: at every moment at most one browser handle of the source is live, and an
\* attempt begins only when no handle of an earlier attempt is live, the handles
\* of tasks abandoned by the timer included.
C12_OneLiveHandle ==
    /\ Cardinality(live) <= 1
    /\ pc = "loop" => live = {}

\* C13: whatever the interleaving of two listener invocations that observe the
\* same sentinel, the signal channel is closed exactly once and no invocation
\* closes a closed channel.
C13_ConcurrentFlipSafe ==
    /\ ~panicked
    /\ seen.closedStart <= 1
    /\ seen.closedEnd <= 1

\* C14: a successful attempt makes NewWebSource return in the same step; no
\* launch follows it, no delay is taken for it (the delays taken are those of the
\* attempts that failed before), and until the caller closes the source the
\* browser handle of that attempt, the display and the sink are not torn down.
C14_SuccessReturnsAtOnce ==
    /\ outcome = "ok" => (ReturnedOk /\ pc = "returned" /\ ret.err = Nil)
    /\ ReturnedOk => (Launches = attempt /\ count.sleep = attempt - 1)
    /\ (ReturnedOk /\ closeCalls = 0 /\ closePc = "idle") =>
          /\ attempt \in live
          /\ xvfb # "nil" /\ xvfbRunning
          /\ pulseSink # "" /\ sinkLoaded
          /\ count.kill = 0
          /\ count.unload = 0
          /\ closeOps = <<>>

C14_Witness ==
    /\ ReturnedOk
    /\ attempt = 1
    /\ Launches = 1
    /\ count.sleep = 0
    /\ closeCalls = 0

\* the supervisor is inside the retry loop
InRetryLoop == pc \in {"loop", "select", "cancel", "cancelNil", "delay"}

C16_DelayAfterCancel ==
    /\ Exhausted => count.sleep = maxRetries - 1
    /\ InRetryLoop => count.sleep = attempt - 1
    /\ pc = "delay" => (attempt < maxRetries /\ outcome \in {"err", "timeout"})
    /\ pc = "delay" => attempt \notin live

\* the timer of the select ended the current attempt while its navigation was in
\* progress (the listener is registered right before the navigation)
TimerEndedNavigation ==
    /\ pc = "cancel"
    /\ outcome = "timeout"
    /\ task[attempt] = "hung"
    /\ attempt \in listener

\* C17: chromeTimeout is larger than the navigation's own timeout, so a navigation
\* that hangs is reported by the navigation timeout and the timer of the select
\* never ends an attempt whose navigation is in progress.
C17_NavigationTimeoutFirst == ~TimerEndedNavigation

ClassifiedKinds == {"ChromeFailedToStart", "PageLoadFailed"}

\* C18: every failure of an attempt is a ChromeFailedToStart or a PageLoadFailed:
\* what launchChrome sends on the result channel, and what the supervisor takes
\* as the error of the attempt, is nil or an error of one of the two kinds, and
\* an error whose text starts with "chrome failed to start:" is of the first kind.
C18_FailureClassified ==
    /\ \A k \in Attempts :
          chromeErr[k] # Empty =>
             /\ chromeErr[k].kind \in ClassifiedKinds \cup {"nil"}
             /\ chromeErr[k].msg = chromeFailedToStart
                   => chromeErr[k].kind = "ChromeFailedToStart"
    /\ attemptErr.kind \in ClassifiedKinds \cup {"nil"}

\* some argument of the event decodes to a string that is a sentinel
HasSentinel(args) ==
    \E i \in DOMAIN args :
        /\ Unmarshal(args[i]).ok
        /\ Unmarshal(args[i]).type = "string"
        /\ Unmarshal(args[i]).val \in {startRecordingLog, endRecordingLog}

\* the console events none of whose arguments decodes to a sentinel string
NonSentinelEvents == {args \in ConsoleEvents : ~HasSentinel(args)}

SentinelEvents == ConsoleEvents \ NonSentinelEvents

\* C19: in every state the handling of a console event none of whose arguments
\* decodes to a sentinel string leaves the signal state as it is, and a step that
\* changes a signal is the handling of a console event that carries a sentinel
\* string: no exception event, network response event or other event is one.
C19_OnlySentinelsFlip ==
    /\ [](\A args \in NonSentinelEvents : HandleArgs(args, SignalState) = SignalState)
    /\ [][(startRecording' # startRecording \/ endRecording' # endRecording) =>
            /\ \E k \in Attempts, args \in SentinelEvents : ConsoleAPICalled(k, args)
            /\ \A k \in Attempts : ~OtherEvent(k)]_vars

C19_Witness ==
    /\ awaitStart
    /\ RecvReady(startRecording)
    /\ ~RecvReady(endRecording)
    /\ seen.start = 1
    /\ seen.end = 0
    /\ \E k \in Attempts : Delivers(k)

\* C20: Close never fails and never stops early: whether or not killing the
\* display or unloading the sink reports an error, the Close goes on to unload the
\* sink the source holds and ends, and no error of Close reaches the caller:
\* NewWebSource returns the error of the construction, a Close of the caller
\* returns nothing.
C20_CloseNeverFails ==
    [][CloseEnds =>
          /\ closePc' = "idle"
          /\ xvfb' = "nil"
          /\ (xvfb # "nil") <=> (count'.kill = count.kill + 1)
          /\ (pulseSink # "") <=> ("unload" \in Range(closeOps'))
          /\ (pulseSink # "") <=> (count'.unload = count.unload + 1)
          /\ count'.failed = count.failed + (IF KillFails THEN 1 ELSE 0)
                                          + (IF UnloadFails THEN 1 ELSE 0)
          /\ IF pc = "close"
             THEN ret' = [returned |-> TRUE, ok |-> FALSE, err |-> err]
             ELSE ret' = ret /\ closeCalls' = closeCalls + 1]_vars

C20_Witness ==
    /\ ReturnedOk
    /\ closeCalls = 1
    /\ closePc = "idle"
    /\ count.failed = 2
    /\ closeOps = <<"cancel", "kill", "unload">>

\* C21: an uploader New built from a remote configuration delivers through the
\* upload of the configured backend, and a file is left at or reported from a
\* local path only by an uploader built without a remote configuration.
C21_RemoteUsesBackend ==
    /\ (uploader.kind = "remote" /\ uploaded.calls >= 1 /\ ~uploaded.err)
          => (uploaded.backendCalls >= 1 /\ uploaded.via = uploader.backend)
    /\ uploaded.via \in {"localPath", "outDir"} => uploader.kind = "local"

\* C22: when NewWebSource has returned (source, nil) the handle stored in the
\* source, the one Close cancels, is the handle of the attempt that succeeded,
\* whatever the tasks of earlier attempts do.
C22_StoredHandleIsWinner ==
    (ReturnedOk /\ closeCalls = 0 /\ closePc = "idle") => closeChrome = attempt

\* the select of the current attempt receives a result
ReceivesResult == pc = "select" /\ pc' # "select" /\ outcome' # "timeout"

\* C23: the result an attempt receives is the one its own task sent on the
\* channel made for that attempt; the result of a task abandoned by the timer
\* stays in its channel and is never received, and NewWebSource returns success
\* only for the task of the attempt in progress.
C23_OwnResultOnly ==
    /\ [][ReceivesResult =>
            /\ task[attempt] = "done"
            /\ attempt \notin late
            /\ chromeErr[attempt] # Empty
            /\ attemptErr' = chromeErr[attempt]
            /\ \A k \in Attempts \ {attempt} : chromeErr'[k] = chromeErr[k]]_vars
    /\ [][\A k \in Attempts :
            (k # attempt /\ chromeErr[k] # Empty) => chromeErr'[k] = chromeErr[k]]_vars
    /\ [](ReturnedOk => (task[attempt] = "done" /\ attempt \notin late
                            /\ attemptErr = Nil))

C23_Witness ==
    /\ ReturnedOk
    /\ attempt = 2
    /\ 1 \in late
    /\ chromeErr[1] = Nil
    /\ task[2] = "done"

\* C24: a task abandoned by the timer whose launchChrome returns ends: its one
\* send finds the buffer of its channel empty, receiver or not, so the task is
\* never left blocked on the send.
C24_AbandonedTaskEnds ==
    /\ [](\A k \in Attempts :
            task[k] \in {"started", "stored", "listening"} => CanSend(k))
    /\ \A k \in Attempts : (k \in late) ~> (task[k] = "done")

C24_Witness ==
    /\ 1 \in late
    /\ task[1] = "done"
    /\ chromeErr[1] = ErrPageLoadFailed("context canceled")
    /\ attempt = 3
    /\ pc = "select"
==========================================================================
